---- MODULE Spec2Model ----
(***************************************************************************)
(* The POST /transcribe handler of my-whisper-server as a state machine.   *)
(* One handler instance per request; the instances share the file system   *)
(* (uploads/, debug/) and the remote usage ledger.  Every action is the    *)
(* code that runs between two awaits of the async handler, which Node      *)
(* executes without interleaving.                                          *)
(*                                                                         *)
(* JavaScript numbers are records [nan, v]; seconds are kept in hundredths *)
(* (fixed point), token counts are plain integers.  Strings that the code  *)
(* takes apart (the Authorization header, the transcript) are sequences of *)
(* one-character strings; a time string is the sequence of its            *)
(* colon-separated fields.                                                 *)
(***************************************************************************)
EXTENDS Integers, Sequences, FiniteSets, TLC

\* ------------------------------------------------------------------ bounds
\* Requests the server receives in one run, one at a time.
NumReqs == 1

Reqs == 1..NumReqs

\* Requests of one caller whose handlers overlap.
NumConc == 2

\* What the ledger holds for the caller when the overlapping requests arrive.
ConcUsage == 7990

\* ------------------------------------------------------- program constants
UsageLimit == 8000

\* --------------------------------------------------------- JavaScript values
NaN == [nan |-> TRUE, v |-> 0]
Num(n) == [nan |-> FALSE, v |-> n]
Sec(n) == n * 100

Absent == <<>>

\* Number(s) for the field texts the inputs use, in hundredths.
JsNumber(s) ==
  CASE s = "" -> Num(Sec(0))
    [] s = "0" -> Num(Sec(0))
    [] s = "00" -> Num(Sec(0))
    [] s = "10" -> Num(Sec(10))
    [] s = "14" -> Num(Sec(14))
    [] s = "40" -> Num(Sec(40))
    [] s = "40.05" -> Num(Sec(40) + 5)
    [] OTHER -> NaN

JsAdd(a, b) == IF a.nan \/ b.nan THEN NaN ELSE Num(a.v + b.v)
JsSub(a, b) == IF a.nan \/ b.nan THEN NaN ELSE Num(a.v - b.v)
JsGt(a, b) == ~a.nan /\ ~b.nan /\ a.v > b.v
isNaN(a) == a.nan

\* Math.max: NaN if either argument is NaN.
MathMax(a, b) ==
  IF a.nan \/ b.nan THEN NaN ELSE IF a.v >= b.v THEN a ELSE b

CeilDiv(n, d) == IF n >= 0 THEN (n + d - 1) \div d ELSE -((-n) \div d)

\* req.body.startTime || "0:00"
OrDefault(t) == IF t = Absent \/ t = <<"">> THEN <<"0", "00">> ELSE t

\* const [min, sec] = t.split(":").map(Number); return min * 60 + sec;
timeToSeconds(t) ==
  LET min == IF Len(t) >= 1 THEN JsNumber(t[1]) ELSE NaN
      sec == IF Len(t) >= 2 THEN JsNumber(t[2]) ELSE NaN
  IN  IF min.nan \/ sec.nan THEN NaN ELSE Num(min.v * 60 + sec.v)

\* Math.max(end - start, 1)
Duration(start, end) == MathMax(JsSub(end, start), Num(Sec(1)))

\* Math.ceil(duration * 10): duration is in hundredths of a second.
PreEstimate(duration) ==
  IF duration.nan THEN NaN ELSE Num(CeilDiv(duration.v * 10, 100))

\* text.split(" ").length: one piece more than there are spaces.
Pieces(text) == Cardinality({i \in 1..Len(text) : text[i] = " "}) + 1

\* Math.floor in place of Math.ceil.
PostEstimate_Floor(text) == (Pieces(text) * 4) \div 3

\* Math.ceil(text.split(" ").length / 0.75)
PostEstimate(text) == CeilDiv(Pieces(text) * 4, 3)

\* ------------------------------------------------------------ request inputs
Str_Bearer == <<"B", "e", "a", "r", "e", "r", " ">>
Str_Basic == <<"B", "a", "s", "i", "c", " ">>
Tok1 == <<"t", "1">>
TokZ == <<"z", "z">>

\* process.env.OPENAI_API_KEY
OPENAI_API_KEY == <<"s", "k">>

\* Tokens the ledger backend knows; any other token gets an error payload.
ValidTokens == {Tok1}

AuthHeaders ==
  {Absent, Str_Basic \o Tok1, Str_Bearer, Str_Bearer \o Tok1, Str_Bearer \o TokZ}

StartTimes == {Absent, <<"0", "10">>, <<"x", "10">>}
EndTimes == {Absent, <<"0", "40">>, <<"0", "40.05">>, <<"14", "0">>, <<"40">>}

InitialUsages == {0, 7700, 8100}

\* Bodies the transcription service may answer with, and JSON.parse of each.
RawBodies ==
  {"<html>502</html>", "null", "{}", "{\"text\":\"\"}", "{\"text\":7}",
   "{\"text\":\"a b\"}", "{\"text\":\"a b c \"}"}

NoParse == [ok |-> FALSE, isNull |-> FALSE, textType |-> "undefined", text |-> <<>>]
JsonValue(isNull, textType, text) ==
  [ok |-> TRUE, isNull |-> isNull, textType |-> textType, text |-> text]

\* A lenient parser that yields null for what it cannot read.
JSONparse_Lenient(raw) ==
  IF raw \in {"{}", "{\"text\":\"\"}", "{\"text\":7}", "{\"text\":\"a b\"}",
              "{\"text\":\"a b c \"}"}
  THEN CASE raw = "{}" -> JsonValue(FALSE, "undefined", <<>>)
         [] raw = "{\"text\":\"\"}" -> JsonValue(FALSE, "string", <<>>)
         [] raw = "{\"text\":7}" -> JsonValue(FALSE, "number", <<>>)
         [] raw = "{\"text\":\"a b\"}" -> JsonValue(FALSE, "string", <<"a", " ", "b">>)
         [] OTHER -> JsonValue(FALSE, "string", <<"a", " ", "b", " ", "c", " ">>)
  ELSE JsonValue(TRUE, "undefined", <<>>)

JSONparse(raw) ==
  CASE raw = "null" -> JsonValue(TRUE, "undefined", <<>>)
    [] raw = "{}" -> JsonValue(FALSE, "undefined", <<>>)
    [] raw = "{\"text\":\"\"}" -> JsonValue(FALSE, "string", <<>>)
    [] raw = "{\"text\":7}" -> JsonValue(FALSE, "number", <<>>)
    [] raw = "{\"text\":\"a b\"}" -> JsonValue(FALSE, "string", <<"a", " ", "b">>)
    [] raw = "{\"text\":\"a b c \"}" ->
         JsonValue(FALSE, "string", <<"a", " ", "b", " ", "c", " ">>)
    [] OTHER -> NoParse

\* data && data.text !== undefined
HasText_Defined(data) == ~data.isNull /\ data.textType # "undefined"

\* data && data.text
HasText(data) ==
  /\ ~data.isNull
  /\ \/ data.textType = "string" /\ data.text # <<>>
     \/ data.textType = "number"

\* ------------------------------------------------------------- file system
\* A path is <<directory, multer filename, suffix>>; fs maps the paths that
\* exist to what they hold.  multer names the upload of request r uniquely.
\* The name the client gave the file (file.originalname), one for all requests.
FileName_OriginalName(r) == 1

FileName(r) == r
originalPath(r) == <<"uploads", FileName(r), "">>
mp3Path(r) == <<"uploads", FileName(r), ".mp3">>
slicedPath(r) == <<"uploads", FileName(r), "-sliced.mp3">>
debugPath(r) == <<"debug", FileName(r), ".mp3">>
debugDir == <<"debug", 0, "">>

existsSync(f, p) == p \in DOMAIN f
WriteFile(f, p, c) == [q \in DOMAIN f \cup {p} |-> IF q = p THEN c ELSE f[q]]
RemoveFile(f, p) == [q \in DOMAIN f \ {p} |-> f[q]]

\* ---------------------------------------------------------------- responses
Response(status, body) == [status |-> status, body |-> body]
Unauthorized == Response(401, [error |-> "Unauthorized"])
LimitExceeded ==
  Response(403, [error |-> "Usage limit exceeded.", code |-> "USAGE_LIMIT_REACHED"])
NoFile == Response(400, [error |-> "No audio file uploaded."])
ParseFailed == Response(500, [error |-> "Could not parse Whisper response."])
WhisperFailed(data) == Response(500, [error |-> "Whisper API failed", details |-> data])
InternalError_Leaky ==
  Response(500, [error |-> "Internal server error.", message |-> "error.message"])
InternalError == Response(500, [error |-> "Internal server error."])
Success(text, tokens) ==
  Response(200, [transcript |-> text, estimatedTokens |-> tokens])

\* -------------------------------------------------------------------- state
VARIABLES
  pc,       \* where each handler instance is suspended
  req,      \* the request: Authorization header, file, startTime, endTime
  loc,      \* the handler's locals
  obs,      \* what the handler has done so far: calls issued, responses sent
  fs,       \* the files under uploads/ and debug/
  pending,  \* fs.unlink operations handed to the thread pool, not yet run
  ledger    \* usage total per known token, held by the GraphQL backend

vars == <<pc, req, loc, obs, fs, pending, ledger>>

NoReq == [authorization |-> Absent, file |-> FALSE, startTime |-> Absent, endTime |-> Absent]

NoLoc ==
  [authToken |-> <<>>, start |-> NaN, end |-> NaN, duration |-> NaN,
   estimatedTokens |-> NaN, currentUsage |-> 0, finalUploadPath |-> <<>>,
   raw |-> "", data |-> NoParse, amount |-> 0]

NoObs ==
  [reads |-> 0, converts |-> 0, trims |-> 0, uploads |-> <<>>, copies |-> 0,
   unlinks |-> <<>>, increments |-> <<>>, responses |-> <<>>, ledgerReply |-> "none",
   incrementReply |-> "none", ffmpeg |-> <<>>, whisperReply |-> "none", io |-> "none",
   unlinkErrs |-> {}, ledgerAuth |-> <<>>,
   upstream |-> <<>>]

InFlight == {r \in Reqs : pc[r] \notin {"idle", "done", "closed"}}

Init ==
  /\ pc = [r \in Reqs |-> "idle"]
  /\ req = [r \in Reqs |-> NoReq]
  /\ loc = [r \in Reqs |-> NoLoc]
  /\ obs = [r \in Reqs |-> NoObs]
  /\ fs \in {<<>>, WriteFile(<<>>, debugDir, "dir")}
  /\ pending = {}
  /\ ledger \in [ValidTokens -> InitialUsages]

\* res.status(s).json(b)
Send(r, resp) == [obs EXCEPT ![r].responses = Append(@, resp)]

\* authHeader?.slice(7) without the startsWith test.
AuthToken_NoPrefixTest(h) == SubSeq(h, 8, Len(h))

\* ------------------------------------------------------ the handler's tests
\* authHeader?.startsWith("Bearer ") ? authHeader.slice(7) : null
\* (null and the empty string are both <<>>: the guard only tests !authToken)
AuthToken(h) ==
  IF Len(h) >= 7 /\ SubSeq(h, 1, 7) = Str_Bearer THEN SubSeq(h, 8, Len(h)) ELSE <<>>

\* estimatedTokens > 8000: the usage read is left out of the sum.
OverLimit_EstimateOnly(currentUsage, estimatedTokens) ==
  JsGt(estimatedTokens, Num(UsageLimit))

\* currentUsage + estimatedTokens >= 8000
OverLimit_Ge(currentUsage, estimatedTokens) ==
  LET sum == JsAdd(Num(currentUsage), estimatedTokens)
  IN  ~sum.nan /\ sum.v >= UsageLimit

\* currentUsage + estimatedTokens > 8000
OverLimit(currentUsage, estimatedTokens) ==
  JsGt(JsAdd(Num(currentUsage), estimatedTokens), Num(UsageLimit))

\* end >= start in place of end > start.
SliceWanted_Ge(start, end) == ~isNaN(start) /\ ~isNaN(end) /\ end.v >= start.v

\* !isNaN(start) && !isNaN(end) && end > start
SliceWanted(start, end) == ~isNaN(start) /\ ~isNaN(end) /\ JsGt(end, start)

\* The converted artifact whatever exists.
FinalUploadPath_Converted(f, r) == mp3Path(r)

\* fs.existsSync(slicedPath) ? slicedPath : mp3Path
FinalUploadPath(f, r) == IF existsSync(f, slicedPath(r)) THEN slicedPath(r) ELSE mp3Path(r)

\* ------------------------------------------------------------------ actions
\* multer's upload.single("audio") stores the file, then the handler is called.
\* Requests are taken one at a time, the next one once the server is idle; the
\* record of the request before it is dropped with its handler ("closed").
Receive(r) ==
  /\ pc[r] = "idle"
  /\ \A q \in Reqs : q < r => pc[q] # "idle"
  /\ InFlight = {} /\ pending = {}
  /\ \E h \in AuthHeaders, file \in BOOLEAN, st \in StartTimes, et \in EndTimes :
       /\ req' = [q \in Reqs |->
                    IF q = r
                    THEN [authorization |-> h, file |-> file, startTime |-> st,
                          endTime |-> et]
                    ELSE NoReq]
       /\ fs' = IF file THEN WriteFile(fs, originalPath(r), <<"webm", r>>) ELSE fs
  /\ pc' = [q \in Reqs |->
              IF q = r THEN "start" ELSE IF pc[q] = "done" THEN "closed" ELSE pc[q]]
  /\ loc' = [q \in Reqs |-> NoLoc]
  /\ obs' = [q \in Reqs |-> NoObs]
  /\ UNCHANGED <<pending, ledger>>

\* Lines 67 and 212: Authorization: `Bearer ${authToken}`
LedgerAuthorization(authToken) == Str_Bearer \o authToken

\* Lines 34-72: auth guard, timestamps, pre-check estimate, ledger query sent.
AuthGuard(r) ==
  /\ pc[r] = "start"
  /\ LET authToken == AuthToken(req[r].authorization)
         start == timeToSeconds(OrDefault(req[r].startTime))
         end == timeToSeconds(OrDefault(req[r].endTime))
         duration == Duration(start, end)
     IN  IF authToken = <<>>
         THEN /\ obs' = Send(r, Unauthorized)
              /\ pc' = [pc EXCEPT ![r] = "done"]
              /\ UNCHANGED loc
         ELSE /\ loc' = [loc EXCEPT ![r].authToken = authToken,
                                    ![r].start = start,
                                    ![r].end = end,
                                    ![r].duration = duration,
                                    ![r].estimatedTokens = PreEstimate(duration)]
              /\ obs' = [obs EXCEPT ![r].reads = @ + 1,
                                    ![r].ledgerAuth =
                                      Append(@, LedgerAuthorization(authToken))]
              /\ pc' = [pc EXCEPT ![r] = "awaitUsage"]
  /\ UNCHANGED <<req, fs, pending, ledger>>

\* The catch answers, and the handler answers again where it was interrupted.
Catch_Twice(r, seen) ==
  /\ obs' = [seen EXCEPT ![r].responses = Append(Append(@, InternalError), InternalError)]
  /\ pc' = [pc EXCEPT ![r] = "done"]

\* Lines 231-234: the top-level catch.
Catch(r, seen) ==
  /\ obs' = [seen EXCEPT ![r].responses = Append(@, InternalError)]
  /\ pc' = [pc EXCEPT ![r] = "done"]

\* A payload without a count is read as a caller already at the limit.
CurrentUsage_AtLimit(reply, l, tok) == IF reply = "count" THEN l[tok] ELSE UsageLimit

\* Line 75: usageData?.data?.getUsageCount ?? 0
CurrentUsage(reply, l, tok) == IF reply = "count" THEN l[tok] ELSE 0

\* Lines 63-109: the ledger answers; quota gate; file check; conversion started.
\* reply "count": {data: {getUsageCount: n}}; "nodata": a payload without it.
UsageReply(r) ==
  /\ pc[r] = "awaitUsage"
  /\ \E reply \in {"count", "nodata"} :
       /\ reply = "count" => loc[r].authToken \in ValidTokens
       /\ LET currentUsage == CurrentUsage(reply, ledger, loc[r].authToken)
              seen == [obs EXCEPT ![r].ledgerReply = reply]
          IN  /\ loc' = [loc EXCEPT ![r].currentUsage = currentUsage]
              /\ IF OverLimit(currentUsage, loc[r].estimatedTokens)
                 THEN /\ obs' = [seen EXCEPT ![r].responses = Append(@, LimitExceeded)]
                      /\ pc' = [pc EXCEPT ![r] = "done"]
                 ELSE IF ~req[r].file
                 THEN /\ obs' = [seen EXCEPT ![r].responses = Append(@, NoFile)]
                      /\ pc' = [pc EXCEPT ![r] = "done"]
                 ELSE /\ obs' = [seen EXCEPT ![r].converts = @ + 1]
                      /\ pc' = [pc EXCEPT ![r] = "awaitConvert"]
  /\ UNCHANGED <<req, fs, pending, ledger>>

\* A rejected usage query is sent once more.
UsageFails_Retry(r) ==
  /\ pc[r] = "awaitUsage"
  /\ IF obs[r].reads < 2
     THEN /\ obs' = [obs EXCEPT ![r].reads = @ + 1]
          /\ UNCHANGED pc
     ELSE /\ obs' = [obs EXCEPT ![r].ledgerReply = "reject",
                                ![r].responses = Append(@, InternalError)]
          /\ pc' = [pc EXCEPT ![r] = "done"]
  /\ UNCHANGED <<req, loc, fs, pending, ledger>>

\* Lines 63-74: fetch rejects or usageResponse.json() throws.
UsageFails(r) ==
  /\ pc[r] = "awaitUsage"
  /\ obs' = [obs EXCEPT ![r].ledgerReply = "reject", ![r].responses = Append(@, InternalError)]
  /\ pc' = [pc EXCEPT ![r] = "done"]
  /\ UNCHANGED <<req, loc, fs, pending, ledger>>

\* The caller's own header is passed on to the transcription service.
UploadFields_CallerToken(r) ==
  [model |-> "whisper-1", authorization |-> Str_Bearer \o loc[r].authToken]

\* Lines 141-149: the model field of the form and the Authorization header.
UploadFields(r) ==
  [model |-> "whisper-1", authorization |-> Str_Bearer \o OPENAI_API_KEY]

\* Lines 137-153: the file streamed to the transcription service.
UploadCall(r, f, path) == [path |-> path, holds |-> f[path]]

\* Lines 135-153: after ffmpeg's last "end", pick the artifact and stream it to
\* the transcription service.
StartUpload(r, f) ==
  LET finalUploadPath == FinalUploadPath(f, r)
  IN  /\ loc' = [loc EXCEPT ![r].finalUploadPath = finalUploadPath]
      /\ obs' = [obs EXCEPT ![r].ffmpeg = Append(@, "end"),
                            ![r].uploads = Append(@, UploadCall(r, f, finalUploadPath)),
                            ![r].upstream = Append(@, UploadFields(r))]
      /\ pc' = [pc EXCEPT ![r] = "awaitWhisper"]

\* The trim is started and the upload goes out without waiting for it.
ConvertEnd_TrimNotAwaited(r) ==
  /\ pc[r] = "awaitConvert"
  /\ LET f == WriteFile(fs, mp3Path(r), <<"mp3", r>>)
     IN  /\ fs' = f
         /\ IF SliceWanted(loc[r].start, loc[r].end)
            THEN /\ loc' = [loc EXCEPT ![r].finalUploadPath = FinalUploadPath(f, r)]
                 /\ obs' = [obs EXCEPT ![r].ffmpeg = Append(@, "end"),
                                       ![r].trims = @ + 1,
                                       ![r].uploads =
                                         Append(@, UploadCall(r, f, FinalUploadPath(f, r))),
                                       ![r].upstream = Append(@, UploadFields(r))]
                 /\ pc' = [pc EXCEPT ![r] = "awaitWhisper"]
            ELSE StartUpload(r, f)
  /\ UNCHANGED <<req, pending, ledger>>

\* Lines 100-133: ffmpeg signals "end"; slicing guard; trim started or skipped.
ConvertEnd(r) ==
  /\ pc[r] = "awaitConvert"
  /\ LET f == WriteFile(fs, mp3Path(r), <<"mp3", r>>)
     IN  /\ fs' = f
         /\ IF SliceWanted(loc[r].start, loc[r].end)
            THEN /\ obs' = [obs EXCEPT ![r].ffmpeg = Append(@, "end"), ![r].trims = @ + 1]
                 /\ pc' = [pc EXCEPT ![r] = "awaitSlice"]
                 /\ UNCHANGED loc
            ELSE StartUpload(r, f)
  /\ UNCHANGED <<req, pending, ledger>>

\* Lines 104-107: ffmpeg signals "error"; a partial output may be left behind.
ConvertError(r) ==
  /\ pc[r] = "awaitConvert"
  /\ \E partial \in BOOLEAN :
       fs' = IF partial THEN WriteFile(fs, mp3Path(r), <<"partial", r>>) ELSE fs
  /\ Catch(r, [obs EXCEPT ![r].ffmpeg = Append(@, "error")])
  /\ UNCHANGED <<req, loc, pending, ledger>>

\* Lines 121-124: the trim signals "end".
SliceEnd(r) ==
  /\ pc[r] = "awaitSlice"
  /\ LET f == WriteFile(fs, slicedPath(r), <<"sliced", r>>)
     IN  /\ fs' = f
         /\ StartUpload(r, f)
  /\ UNCHANGED <<req, pending, ledger>>

\* The trim's "error" handler resolves, and the handler goes on with the
\* untrimmed artifact.
SliceError_Fallback(r) ==
  /\ pc[r] = "awaitSlice"
  /\ loc' = [loc EXCEPT ![r].finalUploadPath = mp3Path(r)]
  /\ obs' = [obs EXCEPT ![r].ffmpeg = Append(@, "error"),
                        ![r].uploads = Append(@, UploadCall(r, fs, mp3Path(r))),
                        ![r].upstream = Append(@, UploadFields(r))]
  /\ pc' = [pc EXCEPT ![r] = "awaitWhisper"]
  /\ UNCHANGED <<req, fs, pending, ledger>>

\* Lines 125-128: the trim signals "error".
SliceError(r) ==
  /\ pc[r] = "awaitSlice"
  /\ \E partial \in BOOLEAN :
       fs' = IF partial THEN WriteFile(fs, slicedPath(r), <<"partial", r>>) ELSE fs
  /\ Catch(r, [obs EXCEPT ![r].ffmpeg = Append(@, "error")])
  /\ UNCHANGED <<req, loc, pending, ledger>>

\* The increment carries the estimate of line 58, the one made from the
\* timestamps (0 when that is not a number).
Amount_PreCheck(r, text) ==
  IF isNaN(loc[r].estimatedTokens) THEN 0 ELSE loc[r].estimatedTokens.v

\* Lines 193 and 217-219: variables: { amount: estimatedTokens }, the constant
\* declared at line 193 inside the text gate.
Amount(r, text) == PostEstimate(text)

\* The trimmed artifact is left out of the deletions.
UnlinkCalls_NoSliced(r) == <<originalPath(r), mp3Path(r)>>

\* Lines 176-186: the fs.unlink calls, in the order the handler makes them.
UnlinkCalls(r) == <<originalPath(r), mp3Path(r), slicedPath(r)>>

\* fs.unlink(path, callback): handed to the thread pool, runs later.
Unlinks(r) ==
  {[by |-> r, path |-> UnlinkCalls(r)[i]] : i \in 1..Len(UnlinkCalls(r))}

\* fs.copyFileSync(mp3Path, debugPath), as the handler did before it trimmed.
DebugCopySource_Mp3(r) == mp3Path(r)

\* Line 173: fs.copyFileSync(finalUploadPath, debugPath)
DebugCopySource(r) == loc[r].finalUploadPath

\* The increment is sent without await: the 200 goes out with it.
WhisperReply_FireAndForget(r) ==
  /\ pc[r] = "awaitWhisper"
  /\ \E raw \in RawBodies, io \in {"ok", "mkdirThrows", "copyThrows"} :
       LET data == JSONparse(raw)
           got == [loc EXCEPT ![r].raw = raw, ![r].data = data]
           seen == [obs EXCEPT ![r].whisperReply = "body"]
           withDir == WriteFile(fs, debugDir, "dir")
       IN  IF ~data.ok
           THEN /\ io = "ok"
                /\ loc' = got
                /\ obs' = [seen EXCEPT ![r].responses = Append(@, ParseFailed)]
                /\ pc' = [pc EXCEPT ![r] = "done"]
                /\ UNCHANGED <<fs, pending>>
           ELSE IF io = "mkdirThrows"
           THEN /\ ~existsSync(fs, debugDir)
                /\ loc' = got
                /\ Catch(r, [seen EXCEPT ![r].io = io])
                /\ UNCHANGED <<fs, pending>>
           ELSE IF io = "copyThrows"
           THEN /\ loc' = got
                /\ fs' = withDir
                /\ Catch(r, [seen EXCEPT ![r].io = io])
                /\ UNCHANGED pending
           ELSE /\ existsSync(fs, DebugCopySource(r))
                /\ fs' = WriteFile(withDir, debugPath(r), fs[DebugCopySource(r)])
                /\ pending' = pending \cup Unlinks(r)
                /\ LET cleaned ==
                         [seen EXCEPT ![r].io = io,
                                      ![r].copies = @ + 1,
                                      ![r].unlinks = @ \o UnlinkCalls(r)]
                   IN  IF ~HasText(data)
                       THEN /\ loc' = got
                            /\ obs' = [cleaned EXCEPT ![r].responses =
                                         Append(@, WhisperFailed(data))]
                            /\ pc' = [pc EXCEPT ![r] = "done"]
                       ELSE IF data.textType # "string"
                       THEN \* data.text.split is not a function: caught at line 231
                            /\ loc' = got
                            /\ obs' = [cleaned EXCEPT ![r].responses =
                                         Append(@, InternalError)]
                            /\ pc' = [pc EXCEPT ![r] = "done"]
                       ELSE LET estimatedTokens == Amount(r, data.text)
                            IN  /\ loc' = [got EXCEPT ![r].amount = estimatedTokens]
                                /\ obs' = [cleaned EXCEPT
                                             ![r].responses =
                                               Append(@, Success(data.text,
                                                                 estimatedTokens)),
                                             ![r].increments = Append(@, estimatedTokens),
                                             ![r].ledgerAuth =
                                               Append(@, LedgerAuthorization(
                                                           loc[r].authToken))]
                                /\ pc' = [pc EXCEPT ![r] = "awaitIncrement"]
  /\ UNCHANGED <<req, ledger>>

\* Lines 155-230: the transcription service answers with a body; parse guard,
\* debug copy, the three unlink calls, text gate, increment sent.
\* io is what the synchronous mkdirSync / copyFileSync calls do.  Lines 200-206
\* do nothing: globalThis.chrome is not defined in the Node process.
WhisperReply(r) ==
  /\ pc[r] = "awaitWhisper"
  /\ \E raw \in RawBodies, io \in {"ok", "mkdirThrows", "copyThrows"} :
       LET data == JSONparse(raw)
           got == [loc EXCEPT ![r].raw = raw, ![r].data = data]
           seen == [obs EXCEPT ![r].whisperReply = "body"]
           withDir == WriteFile(fs, debugDir, "dir")
       IN  IF ~data.ok
           THEN /\ io = "ok"
                /\ loc' = got
                /\ obs' = [seen EXCEPT ![r].responses = Append(@, ParseFailed)]
                /\ pc' = [pc EXCEPT ![r] = "done"]
                /\ UNCHANGED <<fs, pending>>
           ELSE IF io = "mkdirThrows"
           THEN /\ ~existsSync(fs, debugDir)
                /\ loc' = got
                /\ Catch(r, [seen EXCEPT ![r].io = io])
                /\ UNCHANGED <<fs, pending>>
           ELSE IF io = "copyThrows"
           THEN /\ loc' = got
                /\ fs' = withDir
                /\ Catch(r, [seen EXCEPT ![r].io = io])
                /\ UNCHANGED pending
           ELSE /\ existsSync(fs, DebugCopySource(r))
                /\ fs' = WriteFile(withDir, debugPath(r), fs[DebugCopySource(r)])
                /\ pending' = pending \cup Unlinks(r)
                /\ LET cleaned ==
                         [seen EXCEPT ![r].io = io,
                                      ![r].copies = @ + 1,
                                      ![r].unlinks = @ \o UnlinkCalls(r)]
                   IN  IF ~HasText(data)
                       THEN /\ loc' = got
                            /\ obs' = [cleaned EXCEPT ![r].responses =
                                         Append(@, WhisperFailed(data))]
                            /\ pc' = [pc EXCEPT ![r] = "done"]
                       ELSE IF data.textType # "string"
                       THEN \* data.text.split is not a function: caught at line 231
                            /\ loc' = got
                            /\ obs' = [cleaned EXCEPT ![r].responses =
                                         Append(@, InternalError)]
                            /\ pc' = [pc EXCEPT ![r] = "done"]
                       ELSE LET estimatedTokens == Amount(r, data.text)
                            IN  /\ loc' = [got EXCEPT ![r].amount = estimatedTokens]
                                /\ obs' = [cleaned EXCEPT
                                             ![r].increments = Append(@, estimatedTokens),
                                             ![r].ledgerAuth =
                                               Append(@, LedgerAuthorization(
                                                           loc[r].authToken))]
                                /\ pc' = [pc EXCEPT ![r] = "awaitIncrement"]
  /\ UNCHANGED <<req, ledger>>

\* Lines 143-155: fetch rejects, or response.text() throws.
WhisperFails(r) ==
  /\ pc[r] = "awaitWhisper"
  /\ Catch(r, [obs EXCEPT ![r].whisperReply = "reject"])
  /\ UNCHANGED <<req, loc, fs, pending, ledger>>

\* Line 226: res.json({ transcript: data.text, estimatedTokens })
SuccessResponse(r) == Success(loc[r].data.text, loc[r].amount)

\* The ledger is sent the total: the usage read at line 75 plus the amount.
IncrementReply_AbsoluteTotal(r) ==
  /\ pc[r] = "awaitIncrement"
  /\ \E reply \in {"ok", "error"} :
       /\ reply = "ok" => loc[r].authToken \in ValidTokens
       /\ ledger' = IF reply = "ok"
                    THEN [ledger EXCEPT ![loc[r].authToken] =
                            loc[r].currentUsage + loc[r].amount]
                    ELSE ledger
       /\ obs' = [obs EXCEPT ![r].incrementReply = reply,
                             ![r].responses = Append(@, SuccessResponse(r))]
  /\ pc' = [pc EXCEPT ![r] = "done"]
  /\ UNCHANGED <<req, loc, fs, pending>>

\* Lines 208-226: the ledger answers the mutation (applied, or an error
\* payload); the handler does not look at the answer.
IncrementReply(r) ==
  /\ pc[r] = "awaitIncrement"
  /\ \E reply \in {"ok", "error"} :
       /\ reply = "ok" => loc[r].authToken \in ValidTokens
       /\ ledger' = IF reply = "ok"
                    THEN [ledger EXCEPT ![loc[r].authToken] = @ + loc[r].amount]
                    ELSE ledger
       /\ obs' = [obs EXCEPT ![r].incrementReply = reply,
                             ![r].responses = Append(@, SuccessResponse(r))]
  /\ pc' = [pc EXCEPT ![r] = "done"]
  /\ UNCHANGED <<req, loc, fs, pending>>

\* Lines 208-224: the fetch of the mutation rejects.
IncrementFails(r) ==
  /\ pc[r] = "awaitIncrement"
  /\ obs' = [obs EXCEPT ![r].incrementReply = "reject",
                        ![r].responses = Append(@, InternalError)]
  /\ pc' = [pc EXCEPT ![r] = "done"]
  /\ UNCHANGED <<req, loc, fs, pending, ledger>>

\* Lines 176-189: an unlink runs: the file goes, or the callback logs an error.
UnlinkDone(op) ==
  /\ op \in pending
  /\ pending' = pending \ {op}
  /\ \E ok \in BOOLEAN :
       /\ ok => existsSync(fs, op.path)
       /\ fs' = IF ok THEN RemoveFile(fs, op.path) ELSE fs
       /\ obs' = IF ok THEN obs ELSE [obs EXCEPT ![op.by].unlinkErrs = @ \cup {op.path}]
  /\ UNCHANGED <<pc, req, loc, ledger>>

Next ==
  \/ \E r \in Reqs :
       \/ Receive(r)
       \/ AuthGuard(r)
       \/ UsageReply(r)
       \/ UsageFails(r)
       \/ ConvertEnd(r)
       \/ ConvertError(r)
       \/ SliceEnd(r)
       \/ SliceError(r)
       \/ WhisperReply(r)
       \/ WhisperFails(r)
       \/ IncrementReply(r)
       \/ IncrementFails(r)
  \/ \E op \in pending : UnlinkDone(op)

Spec == Init /\ [][Next]_vars

\* What the handler of request r does once it was called: its synchronous
\* stretches, each begun by the completion of the call it awaits.
Step(r) ==
  \/ AuthGuard(r)
  \/ UsageReply(r)
  \/ UsageFails(r)
  \/ ConvertEnd(r)
  \/ ConvertError(r)
  \/ SliceEnd(r)
  \/ SliceError(r)
  \/ WhisperReply(r)
  \/ WhisperFails(r)
  \/ IncrementReply(r)
  \/ IncrementFails(r)

\* Every call a handler awaits completes, with a result or with an error, and
\* the event loop then runs the handler on.
InitLive ==
  /\ Init
  /\ fs = <<>>
  /\ ledger = [t \in ValidTokens |-> 7700]

LiveSpec == InitLive /\ [][Next]_vars /\ \A r \in Reqs : WF_vars(Step(r))

\* ------------------------------------------------- overlapping invocations
\* Express runs a handler up to its next await and then takes up whichever
\* handler's awaited call has completed: the invocations of one caller overlap.
Conc == 1..NumConc

\* The window the overlapping requests ask for: 0:40 to 0:40.05, which is
\* trimmed and estimated at 10 tokens.
ConcWindows == {<<<<"0", "40">>, <<"0", "40.05">>>>}

\* The bodies the transcription service answers the overlapping requests with:
\* JSON without text, and a transcript.
ConcBodies == {"{}", "{\"text\":\"a b c \"}"}

InitConc ==
  /\ pc = [r \in Conc |-> "idle"]
  /\ req = [r \in Conc |-> NoReq]
  /\ loc = [r \in Conc |-> NoLoc]
  /\ obs = [r \in Conc |-> NoObs]
  /\ fs = WriteFile(<<>>, debugDir, "dir")
  /\ pending = {}
  /\ ledger = [t \in ValidTokens |-> ConcUsage]

\* upload.single("audio") stores the file of one more request of the caller.
ReceiveConc(r) ==
  /\ pc[r] = "idle"
  /\ \A q \in Conc : q < r => pc[q] # "idle"
  /\ \E w \in ConcWindows :
       req' = [req EXCEPT ![r] = [authorization |-> Str_Bearer \o Tok1, file |-> TRUE,
                                  startTime |-> w[1], endTime |-> w[2]]]
  /\ fs' = WriteFile(fs, originalPath(r), <<"webm", r>>)
  /\ pc' = [pc EXCEPT ![r] = "start"]
  /\ UNCHANGED <<loc, obs, pending, ledger>>

NextConc ==
  \/ \E r \in Conc :
       \/ ReceiveConc(r)
       \/ AuthGuard(r)
       \/ UsageReply(r)
       \/ UsageFails(r)
       \/ ConvertEnd(r)
       \/ ConvertError(r)
       \/ SliceEnd(r)
       \/ SliceError(r)
       \/ WhisperReply(r) /\ loc'[r].raw \in ConcBodies
       \/ WhisperFails(r)
       \/ IncrementReply(r)
       \/ IncrementFails(r)
  \/ \E op \in pending :
       \* here an unlink fails only for a file that is not there
       UnlinkDone(op) /\ (existsSync(fs, op.path) => ~existsSync(fs', op.path))

SpecConc == InitConc /\ [][NextConc]_vars

\* ------------------------------------------------------------------- claims
Responses(r) == obs[r].responses
Has200(r) == \E i \in 1..Len(Responses(r)) : Responses(r)[i].status = 200

\* The header is absent, does not begin with "Bearer ", or has nothing after it.
NoBearerToken(h) ==
  \/ Len(h) <= 7
  \/ \E i \in 1..7 : h[i] # Str_Bearer[i]

\* The ledger answered the usage query of r (with or without a count).
LedgerAnswered(r) == obs[r].ledgerReply \in {"count", "nodata"}

\* The usage read plus the pre-check estimate is a number above 8000.
SumOver8000(r) ==
  /\ ~loc[r].estimatedTokens.nan
  /\ loc[r].currentUsage + loc[r].estimatedTokens.v > 8000

NoTranscoding(r) == obs[r].converts = 0 /\ obs[r].trims = 0
NoUploadNoIncrement(r) == obs[r].uploads = <<>> /\ obs[r].increments = <<>>

\* C1: a request without a bearer token is answered 401 {error: "Unauthorized"}
\* and nothing else: no ledger read, no transcoder run, no upload and no
\* increment, whatever the file and the ledger's usage value.
C1_NoTokenIs401 ==
  \A r \in Reqs :
    (pc[r] \notin {"idle", "closed"} /\ NoBearerToken(req[r].authorization)) =>
      /\ obs[r].reads = 0
      /\ NoTranscoding(r)
      /\ NoUploadNoIncrement(r)
      /\ pc[r] \in {"start", "done"}
      /\ pc[r] = "done" =>
           Responses(r) = <<[status |-> 401, body |-> [error |-> "Unauthorized"]]>>

C1_Witness ==
  \E r \in Reqs :
    /\ pc[r] = "done"
    /\ req[r].authorization = Str_Bearer
    /\ req[r].file
    /\ ledger[Tok1] = 8100
    /\ Responses(r)[1].status = 401

\* C2: once the ledger has answered, a usage value plus pre-check estimate above
\* 8000 gives 403 USAGE_LIMIT_REACHED and no conversion, trim, upload or
\* increment, with or without a file.
C2_OverQuotaIs403 ==
  \A r \in Reqs :
    (LedgerAnswered(r) /\ SumOver8000(r)) =>
      /\ Responses(r) =
           <<[status |-> 403,
              body |-> [error |-> "Usage limit exceeded.", code |-> "USAGE_LIMIT_REACHED"]]>>
      /\ NoTranscoding(r)
      /\ NoUploadNoIncrement(r)

C2_Witness ==
  \E r \in Reqs :
    /\ ~req[r].file
    /\ LedgerAnswered(r)
    /\ loc[r].currentUsage = 7700
    /\ loc[r].estimatedTokens = Num(301)
    /\ Responses(r)[1].status = 403

\* C3: a 200 response is sent only when a bearer token was present, the quota
\* gate passed, a file was attached, the conversion (and the trim, if started)
\* produced its artifact, and the upstream body parsed with a non-empty text.
C3_OnlyTranscriptsGet200 ==
  \A r \in Reqs :
    Has200(r) =>
      /\ ~NoBearerToken(req[r].authorization)
      /\ LedgerAnswered(r) /\ ~SumOver8000(r)
      /\ req[r].file
      /\ obs[r].converts = 1
      /\ Len(obs[r].uploads) = 1
      /\ obs[r].uploads[1].holds =
           IF obs[r].trims = 1 THEN <<"sliced", r>> ELSE <<"mp3", r>>
      /\ loc[r].raw \in {"{\"text\":\"a b\"}", "{\"text\":\"a b c \"}"}
      /\ loc[r].data.textType = "string"
      /\ loc[r].data.text # <<>>

C3_Witness ==
  \E r \in Reqs : Has200(r) /\ obs[r].trims = 1 /\ pc[r] = "done"

\* The handler of r reached the success branch (line 191 took data.text).
SuccessBranch(r) ==
  /\ obs[r].copies = 1
  /\ loc[r].data.ok
  /\ ~loc[r].data.isNull
  /\ loc[r].data.textType = "string"
  /\ loc[r].data.text # <<>>

\* ceil(wordCount / 0.75): the least n with 0.75 * n >= wordCount.
WordCount(text) == Len(SelectSeq(text, LAMBDA c : c = " ")) + 1
ExpectedTokens(text) ==
  CHOOSE n \in 0..(2 * Len(text) + 2) :
    /\ 3 * n >= 4 * WordCount(text)
    /\ 3 * (n - 1) < 4 * WordCount(text)

C5_ResponseIgnoresIncrement ==
  \A r \in Reqs :
    (SuccessBranch(r) /\ pc[r] = "done") =>
      Responses(r) =
        <<[status |-> 200,
           body |-> [transcript |-> loc[r].data.text,
                     estimatedTokens |-> obs[r].increments[1]]]>>

\* C6: an upstream body that is not JSON gives 500 {error: "Could not parse
\* Whisper response."}, nothing of the body in it, and no increment.
C6_UnparseableIs500 ==
  \A r \in Reqs :
    loc[r].raw = "<html>502</html>" =>
      /\ Responses(r) =
           <<[status |-> 500, body |-> [error |-> "Could not parse Whisper response."]]>>
      /\ obs[r].increments = <<>>
      /\ pc[r] = "done"

C6_Witness ==
  \E r \in Reqs : loc[r].raw = "<html>502</html>" /\ Len(Responses(r)) = 1

\* C7: an upstream body that parses but has no text (null, no field, empty
\* string) gives 500 with details equal to the parsed value, and no increment.
C7_NoTextIs500WithDetails ==
  \A r \in Reqs :
    (pc[r] = "done" /\ loc[r].raw \in {"null", "{}", "{\"text\":\"\"}"}) =>
      /\ Responses(r) =
           <<[status |-> 500,
              body |-> [error |-> "Whisper API failed", details |-> loc[r].data]]>>
      /\ obs[r].increments = <<>>

\* C8: with a token and the quota gate passed, a request without a file gets
\* 400 {error: "No audio file uploaded."} and no transcoder run, upload or
\* increment.
C8_NoFileIs400 ==
  \A r \in Reqs :
    (LedgerAnswered(r) /\ ~SumOver8000(r) /\ ~req[r].file) =>
      /\ Responses(r) =
           <<[status |-> 400, body |-> [error |-> "No audio file uploaded."]]>>
      /\ NoTranscoding(r)
      /\ NoUploadNoIncrement(r)

C8_Witness ==
  \E r \in Reqs :
    /\ ~req[r].file
    /\ loc[r].currentUsage = 7700
    /\ loc[r].estimatedTokens = Num(300)
    /\ Responses(r)[1].status = 400

\* end <= start, or start or end is not a number.
InvalidWindow(r) ==
  \/ loc[r].start.nan
  \/ loc[r].end.nan
  \/ loc[r].end.v <= loc[r].start.v

\* C9: with an invalid slice window the trim is never started, so the request
\* never waits on it or fails by it, and what is uploaded is the full
\* converted artifact.
C9_InvalidWindowSkipsTrim ==
  \A r \in Reqs :
    (obs[r].converts = 1 /\ InvalidWindow(r)) =>
      /\ obs[r].trims = 0
      /\ pc[r] # "awaitSlice"
      /\ obs[r].uploads # <<>> =>
           obs[r].uploads = <<[path |-> mp3Path(r), holds |-> <<"mp3", r>>]>>

C9_Witness ==
  \E r \in Reqs :
    /\ loc[r].end.nan
    /\ ~loc[r].start.nan
    /\ obs[r].uploads # <<>>
    /\ Has200(r)

\* C10: what is uploaded is the trimmed artifact exactly when this request's
\* trim ran and produced its output, and the full converted artifact otherwise.
C10_TrimmedIffTrimRan ==
  \A r \in Reqs :
    obs[r].uploads # <<>> =>
      /\ Len(obs[r].uploads) = 1
      /\ loc[r].finalUploadPath = obs[r].uploads[1].path
      /\ obs[r].uploads[1] =
           IF obs[r].trims = 1
           THEN [path |-> slicedPath(r), holds |-> <<"sliced", r>>]
           ELSE [path |-> mp3Path(r), holds |-> <<"mp3", r>>]

C10_Witness ==
  \E r \in Reqs :
    /\ obs[r].trims = 1
    /\ obs[r].uploads # <<>>
    /\ obs[r].uploads[1].path = slicedPath(r)

\* ffmpeg signalled "error" for the conversion or the trim of r.
EncoderFailed(r) == \E i \in 1..Len(obs[r].ffmpeg) : obs[r].ffmpeg[i] = "error"

\* C11: an encoder error in the conversion or the trim ends the request with a
\* 500 response, and nothing is uploaded (not the untrimmed artifact either)
\* and no increment is issued.
C11_EncoderErrorAborts ==
  \A r \in Reqs :
    EncoderFailed(r) =>
      /\ pc[r] = "done"
      /\ Len(Responses(r)) = 1
      /\ Responses(r)[1].status = 500
      /\ obs[r].uploads = <<>>
      /\ obs[r].increments = <<>>
      /\ obs[r].whisperReply = "none"

C11_Witness ==
  \E r \in Reqs :
    /\ obs[r].ffmpeg = <<"end", "error">>
    /\ existsSync(fs, mp3Path(r))
    /\ fs[mp3Path(r)] = <<"mp3", r>>
    /\ pc[r] = "done"

\* The three temporary files of r: raw upload, converted, trimmed.
TempPaths(r) ==
  {<<"uploads", r, "">>, <<"uploads", r, ".mp3">>, <<"uploads", r, "-sliced.mp3">>}

\* The archival copy was made and the three deletions were started.
LifecycleRan(r) ==
  /\ obs[r].copies = 1
  /\ Len(obs[r].unlinks) = 3
  /\ {obs[r].unlinks[i] : i \in 1..3} = TempPaths(r)

\* C12: the artifact lifecycle (archival copy, then the three deletions) runs
\* whenever the transcription service has answered: with a transcript, with a
\* body that does not parse, or with a parsed body without text.
C12_LifecycleAfterEveryAnswer ==
  \A r \in Reqs : obs[r].whisperReply = "body" => LifecycleRan(r)

\* C13: once the response is sent and the unlink callbacks have run, and no
\* deletion of an existing file failed, none of the request's temporary files
\* is left, on every exit path.
C13_TempFilesGone ==
  \A r \in Reqs :
    ( /\ pc[r] = "done"
      /\ pending = {}
      /\ \A p \in obs[r].unlinkErrs : ~existsSync(fs, p) ) =>
      \A p \in TempPaths(r) : ~existsSync(fs, p)

\* The upstream body of r parsed and carries a non-empty string text.
GotTranscript(r) ==
  /\ loc[r].data.ok
  /\ ~loc[r].data.isNull
  /\ loc[r].data.textType = "string"
  /\ loc[r].data.text # <<>>

\* C14: when making the debug directory or the debug copy fails, the failure
\* is not escalated: the deletions are still started, the increment is still
\* issued and the answer is what it would have been (200 for a transcript).
C14_CopyFailureNotEscalated ==
  \A r \in Reqs :
    obs[r].io \in {"mkdirThrows", "copyThrows"} =>
      /\ Len(obs[r].unlinks) = 3
      /\ GotTranscript(r) => Len(obs[r].increments) = 1
      /\ (GotTranscript(r) /\ pc[r] = "done" /\ obs[r].incrementReply # "reject") =>
           Has200(r)
      /\ \A i \in 1..Len(Responses(r)) :
           Responses(r)[i].body.error # "Internal server error."

\* What the handler answers once cleanup was reached, from the upstream body
\* and the outcome of the increment call alone.
AnswerAfterCleanup(r) ==
  IF loc[r].data.isNull \/ loc[r].data.textType = "undefined"
     \/ (loc[r].data.textType = "string" /\ loc[r].data.text = <<>>)
  THEN [status |-> 500,
        body |-> [error |-> "Whisper API failed", details |-> loc[r].data]]
  ELSE IF loc[r].data.textType # "string" \/ obs[r].incrementReply = "reject"
  THEN [status |-> 500, body |-> [error |-> "Internal server error."]]
  ELSE [status |-> 200,
        body |-> [transcript |-> loc[r].data.text,
                  estimatedTokens |-> obs[r].increments[1]]]

\* C15: where cleanup is reached, the deletion of the raw upload, of the
\* converted and of the trimmed artifact is each started exactly once, all
\* three whatever any of them does, and the answer does not depend on which of
\* them failed.
C15_DeletionsIndependent ==
  \A r \in Reqs :
    obs[r].copies = 1 =>
      /\ obs[r].unlinks =
           <<<<"uploads", r, "">>, <<"uploads", r, ".mp3">>, <<"uploads", r, "-sliced.mp3">>>>
      /\ obs[r].unlinkErrs \subseteq TempPaths(r)
      /\ \A p \in TempPaths(r) :
           ([by |-> r, path |-> p] \notin pending /\ p \notin obs[r].unlinkErrs) =>
             ~existsSync(fs, p)
      /\ pc[r] = "done" => Responses(r) = <<AnswerAfterCleanup(r)>>

C15_Witness ==
  \E r \in Reqs :
    /\ obs[r].copies = 1
    /\ obs[r].trims = 0
    /\ pending = {}
    /\ obs[r].unlinkErrs = {originalPath(r), slicedPath(r)}
    /\ existsSync(fs, originalPath(r))
    /\ ~existsSync(fs, mp3Path(r))
    /\ Has200(r)

\* C16: when a deletion has been started, the debug copy, named by the
\* upload's identifier, already exists and holds what was uploaded to the
\* transcription service.
C16_CopyBeforeDeletion ==
  \A r \in Reqs :
    (obs[r].unlinks # <<>> \/ \E op \in pending : op.by = r) =>
      /\ existsSync(fs, <<"debug", r, ".mp3">>)
      /\ fs[<<"debug", r, ".mp3">>] = obs[r].uploads[1].holds
      /\ existsSync(fs, debugDir)

C16_Witness ==
  \E r \in Reqs :
    /\ obs[r].unlinks # <<>>
    /\ obs[r].uploads[1].path = slicedPath(r)
    /\ fs[debugPath(r)] = <<"sliced", r>>
    /\ ~existsSync(fs, slicedPath(r))
    /\ ~existsSync(fs, mp3Path(r))

\* Calls of a request that were sent and are not answered yet.
Bit(b) == IF b THEN 1 ELSE 0
OutstandingRead(r) == obs[r].reads - Bit(obs[r].ledgerReply # "none")
OutstandingFfmpeg(r) == obs[r].converts + obs[r].trims - Len(obs[r].ffmpeg)
OutstandingUpload(r) == Len(obs[r].uploads) - Bit(obs[r].whisperReply # "none")
OutstandingIncrement(r) == Len(obs[r].increments) - Bit(obs[r].incrementReply # "none")
Outstanding(r) ==
  OutstandingRead(r) + OutstandingFfmpeg(r) + OutstandingUpload(r)
    + OutstandingIncrement(r)

AllEnded(r) == \A i \in 1..Len(obs[r].ffmpeg) : obs[r].ffmpeg[i] = "end"

\* C17: a request's stages come in the order auth, usage read and quota gate,
\* file check, conversion, trim or skip, upload, parse, cleanup and increment;
\* a stage has started only if the call of the stage before it was answered,
\* and a request has at most one call to the ledger, the transcoder or the
\* transcription service unanswered at any time.
C17_StagesInOrder ==
  \A r \in Reqs :
    /\ Outstanding(r) \in {0, 1}
    /\ obs[r].reads > 0 => AuthToken(req[r].authorization) # <<>>
    /\ (\E i \in 1..Len(Responses(r)) : Responses(r)[i].status \in {400, 403}) =>
         LedgerAnswered(r) /\ obs[r].converts = 0
    /\ obs[r].converts > 0 =>
         /\ LedgerAnswered(r)
         /\ req[r].file
         /\ ~OverLimit(loc[r].currentUsage, loc[r].estimatedTokens)
    /\ obs[r].trims > 0 => obs[r].converts = 1 /\ obs[r].ffmpeg[1] = "end"
    /\ obs[r].uploads # <<>> =>
         /\ obs[r].converts = 1
         /\ Len(obs[r].ffmpeg) = obs[r].converts + obs[r].trims
         /\ AllEnded(r)
    /\ (obs[r].copies > 0 \/ obs[r].unlinks # <<>> \/ loc[r].data.ok) =>
         obs[r].whisperReply = "body" /\ Len(obs[r].uploads) = 1
    /\ obs[r].increments # <<>> =>
         obs[r].copies = 1 /\ Len(obs[r].unlinks) = 3 /\ loc[r].data.ok

C17_Witness ==
  \E r \in Reqs :
    /\ pc[r] = "awaitIncrement"
    /\ Outstanding(r) = 1
    /\ OutstandingIncrement(r) = 1
    /\ obs[r].trims = 1
    /\ obs[r].ffmpeg = <<"end", "end">>

\* C18: within a request the usage read, the conversion, the trim, the upload
\* and the increment are each sent at most once, so the transcoder runs at most
\* twice, whatever the calls answer.
C18_NoRetry ==
  \A r \in Reqs :
    /\ obs[r].reads <= 1
    /\ obs[r].converts <= 1
    /\ obs[r].trims <= 1
    /\ Len(obs[r].uploads) <= 1
    /\ Len(obs[r].increments) <= 1
    /\ obs[r].converts + obs[r].trims <= 2
    /\ Len(obs[r].ffmpeg) <= 2

C18_Witness ==
  \E r \in Reqs :
    /\ pc[r] = "done"
    /\ obs[r].reads = 1 /\ obs[r].converts = 1 /\ obs[r].trims = 1
    /\ Len(obs[r].uploads) = 1 /\ Len(obs[r].increments) = 1
    /\ obs[r].incrementReply = "reject"

\* A call or a synchronous file operation of the handler threw.
Thrown(r) ==
  \/ obs[r].ledgerReply = "reject"
  \/ EncoderFailed(r)
  \/ obs[r].whisperReply = "reject"
  \/ obs[r].io \in {"mkdirThrows", "copyThrows"}
  \/ obs[r].incrementReply = "reject"

\* C19: every answer other than 200 has an error field and a status among 400,
\* 401, 403 and 500; when something in the handler threw, the one answer is 500
\* with exactly {error: "Internal server error."}; and no failure answer has a
\* field besides error, except the 403's code and the details of the
\* answer for an upstream body without text.
C19_FailureShape ==
  \A r \in Reqs :
    /\ \A i \in 1..Len(Responses(r)) :
         LET resp == Responses(r)[i]
         IN  resp.status # 200 =>
               /\ "error" \in DOMAIN resp.body
               /\ resp.status \in {400, 401, 403, 500}
               /\ DOMAIN resp.body \in {{"error"}, {"error", "code"}, {"error", "details"}}
               /\ "code" \in DOMAIN resp.body =>
                    resp.status = 403 /\ resp.body.code = "USAGE_LIMIT_REACHED"
               /\ "details" \in DOMAIN resp.body =>
                    /\ resp.body.error = "Whisper API failed"
                    /\ resp.body.details = loc[r].data
                    /\ ~HasText(loc[r].data)
    /\ Thrown(r) =>
         /\ pc[r] = "done"
         /\ Len(Responses(r)) = 1
         /\ Responses(r)[1].status = 500
         /\ DOMAIN Responses(r)[1].body = {"error"}
         /\ Responses(r)[1].body.error = "Internal server error."

C19_Witness ==
  \E r \in Reqs :
    /\ obs[r].io = "copyThrows"
    /\ obs[r].trims = 1
    /\ Responses(r) = <<[status |-> 500, body |-> [error |-> "Internal server error."]]>>

\* C20: for every request past the auth guard the duration is max(end - start,
\* 1 s), at least one second, and the pre-check estimate is at least 10,
\* malformed and absent fields included.
C20_DurationAtLeastOne ==
  \A r \in Reqs :
    obs[r].reads > 0 =>
      /\ ~isNaN(loc[r].duration)
      /\ loc[r].duration.v >= Sec(1)
      /\ ~isNaN(loc[r].estimatedTokens)
      /\ loc[r].estimatedTokens.v >= 10

\* C22: a request is converted and uploaded only if the ledger returned a usage
\* count for its token; a token the ledger answers without a count never
\* reaches conversion or the transcription service.
C22_OnlyAcceptedTokensUpload ==
  \A r \in Reqs :
    (obs[r].converts > 0 \/ obs[r].uploads # <<>>) => obs[r].ledgerReply = "count"

\* The caller's token, as the auth guard extracts it.
CallerToken(r) == AuthToken(req[r].authorization)

\* C24: every upload carries the service credential and the model "whisper-1",
\* whatever the caller sent, and never the caller's token; both ledger calls
\* carry the caller's Authorization header as it came in.
C24_UpstreamCredentials ==
  \A r \in Reqs :
    /\ Len(obs[r].upstream) = Len(obs[r].uploads)
    /\ \A i \in 1..Len(obs[r].upstream) :
         /\ obs[r].upstream[i].model = "whisper-1"
         /\ obs[r].upstream[i].authorization = <<"B", "e", "a", "r", "e", "r", " ", "s", "k">>
         /\ obs[r].upstream[i].authorization # Str_Bearer \o CallerToken(r)
    /\ Len(obs[r].ledgerAuth) = obs[r].reads + Len(obs[r].increments)
    /\ \A i \in 1..Len(obs[r].ledgerAuth) :
         /\ obs[r].ledgerAuth[i] = req[r].authorization
         /\ obs[r].ledgerAuth[i] = Str_Bearer \o CallerToken(r)

C24_Witness ==
  \E r \in Reqs :
    /\ CallerToken(r) = TokZ
    /\ Len(obs[r].uploads) = 1
    /\ Len(obs[r].ledgerAuth) = 2
    /\ Has200(r)

Rejected403(r) == \E i \in 1..Len(Responses(r)) : Responses(r)[i].status = 403

\* C25: when the ledger's answer has no usage count, currentUsage is 0 and the
\* request is rejected by the quota gate exactly when the pre-check estimate
\* alone is above 8000.
C25_NoCountMeansZero ==
  \A r \in Reqs :
    obs[r].ledgerReply = "nodata" =>
      /\ loc[r].currentUsage = 0
      /\ Rejected403(r) <=>
           (~isNaN(loc[r].estimatedTokens) /\ loc[r].estimatedTokens.v > 8000)

C25_Witness ==
  \E r \in Reqs :
    /\ obs[r].ledgerReply = "nodata"
    /\ CallerToken(r) = Tok1
    /\ ledger[Tok1] = 8100
    /\ obs[r].converts = 1
    /\ loc[r].estimatedTokens = Num(300)

\* C26: a 200 is sent only after the increment call of the request was
\* answered.
C26_IncrementAwaited ==
  \A r \in Reqs :
    Has200(r) =>
      /\ Len(obs[r].increments) = 1
      /\ obs[r].incrementReply \in {"ok", "error"}
      /\ OutstandingIncrement(r) = 0

C26_Witness ==
  \E r \in Reqs :
    /\ Has200(r)
    /\ obs[r].incrementReply = "ok"
    /\ ledger[Tok1] = 7700 + obs[r].increments[1]

\* C28: a request for which the ledger reports a usage above 8000 gets 403 and
\* is neither converted nor uploaded, whatever startTime and endTime are.
C28_OverCapAlwaysRejected ==
  \A r \in Reqs :
    (obs[r].ledgerReply = "count" /\ loc[r].currentUsage > UsageLimit) =>
      /\ Responses(r) = <<LimitExceeded>>
      /\ obs[r].converts = 0
      /\ obs[r].uploads = <<>>

\* C21: the ledger total of a caller that starts at or under 8000 stays at or
\* under 8000 through any sequence of requests, overlapping ones included.
C21_LedgerWithinCap == \A t \in ValidTokens : ledger[t] <= UsageLimit

\* The paths a request reads, writes or deletes.
PathsOf(r) == TempPaths(r) \cup {debugPath(r)}

BeforeAnswer(r) == pc[r] \in {"awaitUsage", "awaitConvert", "awaitSlice", "awaitWhisper"}

\* C23: overlapping requests have disjoint paths; what a request uploads and
\* archives is its own artifact, it deletes only its own files, and its files
\* last until its own cleanup.
C23_NoPathCollision ==
  \A r \in Conc :
    /\ \A q \in Conc \ {r} : PathsOf(r) \cap PathsOf(q) = {}
    /\ \A p \in PathsOf(r) : existsSync(fs, p) => fs[p][2] = r
    /\ \A i \in 1..Len(obs[r].uploads) :
         /\ obs[r].uploads[i].path \in {mp3Path(r), slicedPath(r)}
         /\ obs[r].uploads[i].holds[2] = r
    /\ \A op \in pending : op.by = r => op.path \in TempPaths(r)
    /\ BeforeAnswer(r) => existsSync(fs, originalPath(r))
    /\ pc[r] = "awaitWhisper" =>
         /\ existsSync(fs, loc[r].finalUploadPath)
         /\ fs[loc[r].finalUploadPath] = obs[r].uploads[1].holds

C23_Witness ==
  \E r, q \in Conc :
    /\ r # q
    /\ pc[r] = "awaitIncrement"
    /\ [by |-> r, path |-> mp3Path(r)] \in pending
    /\ ~existsSync(fs, originalPath(r))
    /\ pc[q] = "awaitWhisper"
    /\ obs[q].uploads[1].path = slicedPath(q)

\* C27: the amount sent to the ledger and returned to the caller is fixed by
\* the transcript alone (3 for "a b", 6 for "a b c "), whatever the pre-check
\* estimate made from startTime and endTime was.
C27_AmountFromTextOnly ==
  \A r \in Reqs :
    obs[r].increments # <<>> =>
      LET amount == IF loc[r].data.text = <<"a", " ", "b">> THEN 3 ELSE 6
      IN  /\ obs[r].increments = <<amount>>
          /\ \A i \in 1..Len(Responses(r)) :
               Responses(r)[i].status = 200 =>
                 Responses(r)[i].body =
                   [transcript |-> loc[r].data.text, estimatedTokens |-> amount]

C27_Witness ==
  \E r \in Reqs :
    /\ Has200(r)
    /\ loc[r].estimatedTokens = Num(300)
    /\ loc[r].data.text = <<"a", " ", "b">>
    /\ obs[r].increments = <<3>>
    /\ ledger[Tok1] = 3

\* What the ledger applied of a request's increment call.
AppliedAmount(r) == IF obs[r].incrementReply = "ok" THEN obs[r].increments[1] ELSE 0

RECURSIVE SumApplied(_)
SumApplied(S) ==
  IF S = {} THEN 0
  ELSE LET r == CHOOSE x \in S : TRUE IN AppliedAmount(r) + SumApplied(S \ {r})

\* C30: with overlapping requests of one caller, the ledger total is the
\* initial value plus the amounts of the increment calls the ledger applied,
\* and a request that reached the success branch issued exactly one such call.
C30_NoLostIncrement ==
  /\ ledger[Tok1] = ConcUsage + SumApplied(Conc)
  /\ \A r \in Conc :
       /\ SuccessBranch(r) => Len(obs[r].increments) = 1
       /\ obs[r].incrementReply # "none" => Len(obs[r].increments) = 1

C30_Witness ==
  /\ \A r \in Conc : pc[r] = "done" /\ obs[r].incrementReply = "ok"
  /\ \A r \in Conc : loc[r].currentUsage = ConcUsage
  /\ ledger[Tok1] = ConcUsage + 6 * NumConc

\* C29: no request is ever answered twice, and, every awaited call completing,
\* a request whose handler was called is eventually answered, exactly once.
C29_ExactlyOneResponse ==
  /\ [](\A r \in Reqs : Len(obs[r].responses) <= 1)
  /\ \A r \in Reqs :
       (pc[r] = "start") ~> (pc[r] = "done" /\ Len(obs[r].responses) = 1)

C29_Witness ==
  \E r \in Reqs :
    /\ pc[r] = "done"
    /\ Len(obs[r].unlinks) = 3
    /\ loc[r].raw = "{\"text\":7}"
    /\ Responses(r) = <<InternalError>>

====
